---------------------------- MODULE Spec2Model ----------------------------
(***************************************************************************)
(* Model of CreateWeatherHistogram.py: the WeatherHistogram batch tool.    *)
(* A run extracts public IPv4 literals from the input text, geolocates     *)
(* each one not yet cached, asks DarkSky (provider A) and Visual Crossing  *)
(* (provider B) for a forecast of every cached location whose temperature  *)
(* is still 0, and writes a histogram of the temperatures as a TSV file.   *)
(* The files ip_locations.txt, VC_limit_date.txt and the output file       *)
(* survive from one run to the next.                                       *)
(*                                                                         *)
(* Text is a sequence of one-character strings.  Temperatures are          *)
(* integers.  Bin edges are kept multiplied by bucket_count, so that the   *)
(* equal-width edges of the histogram are exact integers.                  *)
(***************************************************************************)
EXTENDS Integers, Sequences, FiniteSets, TLC

(***************************************************************************)
(* Bounds of the model.                                                    *)
(***************************************************************************)
\* Number of runs of the program that are explored.
MaxRuns == 2
\* Calendar days after the first one that the clock may advance.
MaxDay == 1
\* Largest --bucket-count argument, and most samples, of the histograms
\* explored on their own.
MaxBuckets == 3
MaxSamples == 3
\* Consecutive 429 answers of the geolocation service to one IP.
MaxRetries == 1
\* Calls of get_location the interpreter lets stand on one another: the
\* recursion limit (sys.getrecursionlimit(), 1000 unless changed) less the
\* frames around them, scaled down.
RecursionLimit == 3
\* self.max_limit_calls (950 in __init__), scaled down so that a run over
\* three cached locations can exceed the budget.
max_limit_calls == 1

(***************************************************************************)
(* Characters and text.                                                    *)
(***************************************************************************)
Digit == {"0", "1", "2", "3", "4", "5", "6", "7", "8", "9"}

\* The letters that occur in the input texts (\w besides the digits).
Letter == {"H", "a", "d", "e", "k", "l", "n", "o", "s", "t", "x", "_"}

IsWord(c) == c \in Digit \cup Letter

DigitVal(c) ==
    CASE c = "0" -> 0 [] c = "1" -> 1 [] c = "2" -> 2 [] c = "3" -> 3
      [] c = "4" -> 4 [] c = "5" -> 5 [] c = "6" -> 6 [] c = "7" -> 7
      [] c = "8" -> 8 [] c = "9" -> 9

DigitChar(n) ==
    CASE n = 0 -> "0" [] n = 1 -> "1" [] n = 2 -> "2" [] n = 3 -> "3"
      [] n = 4 -> "4" [] n = 5 -> "5" [] n = 6 -> "6" [] n = 7 -> "7"
      [] n = 8 -> "8" [] n = 9 -> "9"

\* Code point of a character of an IP literal (Python orders str by code point).
CharCode(c) == IF c = "." THEN 46 ELSE 48 + DigitVal(c)

RECURSIVE StrLess(_, _)
\* a < b for Python strings.
StrLess(a, b) ==
    IF b = <<>> THEN FALSE
    ELSE IF a = <<>> THEN TRUE
    ELSE IF CharCode(Head(a)) # CharCode(Head(b))
         THEN CharCode(Head(a)) < CharCode(Head(b))
         ELSE StrLess(Tail(a), Tail(b))

\* s[i..] starts with the text p.
StartsWith(s, i, p) ==
    /\ i + Len(p) - 1 <= Len(s)
    /\ \A k \in 1..Len(p) : s[i + k - 1] = p[k]

(***************************************************************************)
(* get_ips: the regular expression                                         *)
(*   \b(?!10\.|192\.168\.|172\.(?:1[6-9]|2[0-9]|3[01])\.)O(?:\.O){3}\b      *)
(* with O = (?:25[0-5]|2[0-4][0-9]|[01]?[0-9][0-9]?), applied by findall.  *)
(***************************************************************************)
\* \b between s[i-1] and s[i].
WordBoundary(s, i) ==
    LET before == i > 1 /\ i - 1 <= Len(s) /\ IsWord(s[i - 1])
        after  == i >= 1 /\ i <= Len(s) /\ IsWord(s[i])
    IN  before # after

\* The octet pattern matches exactly the n characters s[i..i+n-1].
OctetAt(s, i, n) ==
    /\ n \in 1..3
    /\ i + n - 1 <= Len(s)
    /\ \A k \in 0..(n - 1) : s[i + k] \in Digit
    /\ n = 3 =>
         \/ s[i] = "2" /\ s[i + 1] = "5" /\ DigitVal(s[i + 2]) <= 5
         \/ s[i] = "2" /\ DigitVal(s[i + 1]) <= 4
         \/ s[i] \in {"0", "1"}

\* The negative lookahead's pattern matches at i.
PrivatePrefixAt(s, i) ==
    \/ StartsWith(s, i, <<"1", "0", ".">>)
    \/ StartsWith(s, i, <<"1", "9", "2", ".", "1", "6", "8", ".">>)
    \/ /\ StartsWith(s, i, <<"1", "7", "2", ".">>)
       /\ i + 6 <= Len(s)
       /\ \/ s[i + 4] = "1" /\ s[i + 5] \in {"6", "7", "8", "9"}
          \/ s[i + 4] = "2" /\ s[i + 5] \in Digit
          \/ s[i + 4] = "3" /\ s[i + 5] \in {"0", "1"}
       /\ s[i + 6] = "."

RECURSIVE MatchOctets(_, _, _)
\* O(?:\.O){n-1}\b from position i: the position after the match the
\* backtracking matcher finds first (longest octet first), 0 when none.
MatchOctets(s, i, n) ==
    LET try(len) ==
            IF ~OctetAt(s, i, len) THEN 0
            ELSE IF n = 1
                 THEN (IF WordBoundary(s, i + len) THEN i + len ELSE 0)
                 ELSE IF i + len <= Len(s) /\ s[i + len] = "."
                      THEN MatchOctets(s, i + len + 1, n - 1)
                      ELSE 0
    IN  IF try(3) # 0 THEN try(3)
        ELSE IF try(2) # 0 THEN try(2)
        ELSE try(1)

\* The whole pattern at position i: the position after the match, 0 when none.
MatchAt(s, i) ==
    IF WordBoundary(s, i) /\ ~PrivatePrefixAt(s, i)
    THEN MatchOctets(s, i, 4)
    ELSE 0

RECURSIVE findall(_, _)
\* pattern.findall: the non-overlapping matches from position i, left to right.
findall(s, i) ==
    IF i > Len(s) THEN <<>>
    ELSE LET e == MatchAt(s, i)
         IN  IF e # 0
             THEN <<SubSeq(s, i, e - 1)>> \o findall(s, e)
             ELSE findall(s, i + 1)

Range(f) == {f[k] : k \in DOMAIN f}

\* self.ip_addresses = set(pattern.findall(self.data))
get_ips(text) == Range(findall(text, 1))

(***************************************************************************)
(* The address an IP literal denotes: four decimal octets.                 *)
(***************************************************************************)
RECURSIVE DecimalValue(_)
DecimalValue(ds) ==
    IF ds = <<>> THEN 0
    ELSE 10 * DecimalValue(SubSeq(ds, 1, Len(ds) - 1)) + DigitVal(ds[Len(ds)])

RECURSIVE SplitDots(_)
\* The literal cut at its dots.
SplitDots(s) ==
    IF \A k \in 1..Len(s) : s[k] # "." THEN <<s>>
    ELSE LET d == CHOOSE k \in 1..Len(s) :
                      s[k] = "." /\ \A j \in 1..(k - 1) : s[j] # "."
         IN  <<SubSeq(s, 1, d - 1)>> \o SplitDots(SubSeq(s, d + 1, Len(s)))

Octets(ip) == [k \in 1..Len(SplitDots(ip)) |-> DecimalValue(SplitDots(ip)[k])]

\* The address lies in 10.0.0.0/8, 172.16.0.0/12 or 192.168.0.0/16.
IsPrivate(ip) ==
    LET o == Octets(ip)
    IN  \/ o[1] = 10
        \/ o[1] = 172 /\ o[2] \in 16..31
        \/ o[1] = 192 /\ o[2] = 168

(***************************************************************************)
(* Dates: datetime.date.today(), str(date) and strptime(line, "%Y-%m-%d"). *)
(***************************************************************************)
\* The calendar date of day n of the model; day 0 is 2020-12-31, so that the
\* first day change also changes the month and the year.
DateOf(n) ==
    IF n = 0 THEN [year |-> 2020, month |-> 12, day |-> 31]
             ELSE [year |-> 2021, month |-> 1, day |-> n]

RECURSIVE ZeroPad(_, _)
\* The decimal digits of n, zero-padded to width w.
ZeroPad(n, w) ==
    IF w = 0 THEN <<>> ELSE ZeroPad(n \div 10, w - 1) \o <<DigitChar(n % 10)>>

\* str(datetime.date): YYYY-MM-DD.
DateStr(d) ==
    ZeroPad(d.year, 4) \o <<"-">> \o ZeroPad(d.month, 2) \o <<"-">> \o ZeroPad(d.day, 2)

\* datetime.datetime.strptime(line, "%Y-%m-%d").date() of a well-formed line.
strptime(line) ==
    [year  |-> DecimalValue(SubSeq(line, 1, 4)),
     month |-> DecimalValue(SubSeq(line, 6, 7)),
     day   |-> DecimalValue(SubSeq(line, 9, 10))]

\* a <= b on dates.
DateLE(a, b) ==
    \/ a.year < b.year
    \/ a.year = b.year /\ a.month < b.month
    \/ a.year = b.year /\ a.month = b.month /\ a.day <= b.day

(***************************************************************************)
(* Files.  A file is [exists, content, torn]; torn tells that the file was *)
(* opened for writing and not written to its end.                          *)
(***************************************************************************)
NoFile == [exists |-> FALSE, content |-> <<>>, torn |-> FALSE]

File(c) == [exists |-> TRUE, content |-> c, torn |-> FALSE]

\* open(name, 'w') empties the file; a process that ends before the write
\* and the close are through leaves it empty or cut short, which neither
\* json.load nor strptime accepts.
Torn == [exists |-> TRUE, content |-> <<>>, torn |-> TRUE]

\* store_vc_limit_date: VC_limit_date.txt after the write on day n.
store_vc_limit_date(n) == File(DateStr(DateOf(n)))

\* read_vc_limit_date comparing with < where the code has <=.
read_vc_limit_date_strict(file, n) ==
    /\ file.exists
    /\ ~DateLE(strptime(file.content), DateOf(n))

\* read_vc_limit_date: the value it leaves in visualcrossing_limit_reached
\* (False before the call) when run on day n.
read_vc_limit_date(file, n) ==
    /\ file.exists
    /\ DateLE(DateOf(n), strptime(file.content))

(***************************************************************************)
(* The location cache: a dict in insertion order, modelled as a sequence   *)
(* of entries [ip, lat, lon, temperature].                                 *)
(***************************************************************************)
Keys(d) == {d[k].ip : k \in DOMAIN d}

RECURSIVE SortByKey(_)
\* The entries of a set, in increasing order of their keys.
SortByKey(es) ==
    IF es = {} THEN <<>>
    ELSE LET m == CHOOSE e \in es : \A f \in es : f = e \/ StrLess(e.ip, f.ip)
         IN  <<m>> \o SortByKey(es \ {m})

\* write_ip_locations_file: json.dump(self.ip_locations, sort_keys=True).
write_ip_locations_file(d) == File(SortByKey(Range(d)))

\* read_files leaving self.ip_locations at {} whatever the file holds.
read_files_nothing(file) == <<>>

\* read_files: json.load of ip_locations.txt; a missing file, or one
\* json.load raises on, leaves {}.
read_files(file) == IF file.exists /\ ~file.torn THEN file.content ELSE <<>>

(***************************************************************************)
(* Inputs of the model.                                                    *)
(***************************************************************************)
\* "Host 8.8.8.8 and 10.0.0.5 talked"
Text1 ==
    <<"H", "o", "s", "t", " ", "8", ".", "8", ".", "8", ".", "8", " ",
      "a", "n", "d", " ", "1", "0", ".", "0", ".", "0", ".", "5", " ",
      "t", "a", "l", "k", "e", "d">>

\* "1.1.1.1,8.8.8.8 1.1.1.1"
Text2 ==
    <<"1", ".", "1", ".", "1", ".", "1", ",", "8", ".", "8", ".", "8", ".", "8",
      " ", "1", ".", "1", ".", "1", ".", "1">>

\* "9.9.9.9 1.1.1.1 8.8.8.8"
Text3 ==
    <<"9", ".", "9", ".", "9", ".", "9", " ", "1", ".", "1", ".", "1", ".", "1",
      " ", "8", ".", "8", ".", "8", ".", "8">>

\* The contents of the input file over a sequence of runs; NoFile is a
\* missing file.
InputFiles == {NoFile, File(Text1), File(Text2)}

\* The content of the input file of a single run over three addresses.
ChainInputFiles == {File(Text3)}

\* Every address some input yields.
AllIps == UNION {get_ips(f.content) : f \in InputFiles \cup ChainInputFiles}

\* --bucket-count when the flag is not given (main).
DefaultBucketCount == 5

\* Values of temperatureHigh / tempmax a provider may return.
TempValues == {-1, 0, 2}

\* Answers of DarkSky: a forecast, the limit signal, any other status.
ResponsesA ==
    [status : {200}, value : TempValues] \cup [status : {403, 500}, value : {0}]

\* Answers of Visual Crossing: a forecast, the limit signal, any other status.
ResponsesB ==
    [status : {200}, value : TempValues] \cup [status : {400, 500}, value : {0}]

\* Coordinates the geolocation service may report, as str() renders them.
Coords == {[lat |-> <<"5", "1", ".", "5">>, lon |-> <<"-", "0", ".", "1">>]}

\* Answers of the geolocation service.
ResponsesGeo ==
    [status : {200}, loc : Coords]
        \cup [status : {429, 400}, loc : {[lat |-> <<>>, lon |-> <<>>]}]

\* A forecast value or Python's None.
None == [none |-> TRUE, value |-> 0]

Some(v) == [none |-> FALSE, value |-> v]

(***************************************************************************)
(* The forecast provider chain.  q is the part of the program state the    *)
(* chain reads and writes: the fields of self of the same names, the file  *)
(* VC_limit_date.txt, and the numbers of requests sent to each provider.   *)
(***************************************************************************)
\* use_darksky_api without the assignment of its 403 branch.
use_darksky_api_no_flag(ra, q) ==
    [temperature |-> IF ra.status = 200 THEN Some(ra.value) ELSE None,
     q |-> [q EXCEPT !.sentA = @ + 1]]

\* use_darksky_api: one request to DarkSky, answered by ra.
use_darksky_api(ra, q) ==
    [temperature |-> IF ra.status = 200 THEN Some(ra.value) ELSE None,
     q |-> [q EXCEPT !.sentA = @ + 1,
                     !.darksky_limit_reached = @ \/ ra.status = 403]]

\* use_visualcrossing_api storing the date when the budget stops the call.
use_visualcrossing_api_budget_date(rb, q, n) ==
    IF q.current_vc_api_call_count > max_limit_calls
    THEN [temperature |-> None,
          q |-> [q EXCEPT !.vc_limit_file = store_vc_limit_date(n),
                          !.visualcrossing_limit_reached = TRUE]]
    ELSE LET q1 == [q EXCEPT !.current_vc_api_call_count = @ + 1,
                             !.sentB = @ + 1]
         IN  IF rb.status = 200
             THEN [temperature |-> Some(rb.value), q |-> q1]
             ELSE IF rb.status = 400
             THEN [temperature |-> None,
                   q |-> [q1 EXCEPT !.vc_limit_file = store_vc_limit_date(n),
                                    !.visualcrossing_limit_reached = TRUE]]
             ELSE [temperature |-> None, q |-> q1]

\* use_visualcrossing_api on day n: the budget check, then one request to
\* Visual Crossing, answered by rb.
use_visualcrossing_api(rb, q, n) ==
    IF q.current_vc_api_call_count > max_limit_calls
    THEN [temperature |-> None,
          q |-> [q EXCEPT !.visualcrossing_limit_reached = TRUE]]
    ELSE LET q1 == [q EXCEPT !.current_vc_api_call_count = @ + 1,
                             !.sentB = @ + 1]
         IN  IF rb.status = 200
             THEN [temperature |-> Some(rb.value), q |-> q1]
             ELSE IF rb.status = 400
             THEN [temperature |-> None,
                   q |-> [q1 EXCEPT !.vc_limit_file = store_vc_limit_date(n),
                                    !.visualcrossing_limit_reached = TRUE]]
             ELSE [temperature |-> None, q |-> q1]

\* get_temperature going to Visual Crossing whenever DarkSky is exhausted.
get_temperature_always_b(ra, rb, q, n) ==
    IF ~q.darksky_limit_reached
    THEN LET a == use_darksky_api(ra, q)
         IN  IF a.temperature.none
             THEN use_visualcrossing_api(rb, a.q, n)
             ELSE a
    ELSE use_visualcrossing_api(rb, q, n)

\* get_temperature asking DarkSky once more when it gives no value.
get_temperature_retry(ra, rb, q, n) ==
    IF ~q.darksky_limit_reached
    THEN LET a0 == use_darksky_api(ra, q)
             a  == IF a0.temperature.none
                   THEN use_darksky_api(ra, a0.q)
                   ELSE a0
         IN  IF a.temperature.none
             THEN use_visualcrossing_api(rb, a.q, n)
             ELSE a
    ELSE IF ~q.visualcrossing_limit_reached
    THEN use_visualcrossing_api(rb, q, n)
    ELSE IF q.darksky_limit_reached /\ q.visualcrossing_limit_reached
    THEN [temperature |-> None, q |-> [q EXCEPT !.api_calls_available = FALSE]]
    ELSE [temperature |-> None, q |-> q]

\* get_temperature: the forecast through the next available provider.
get_temperature(ra, rb, q, n) ==
    IF ~q.darksky_limit_reached
    THEN LET a == use_darksky_api(ra, q)
         IN  IF a.temperature.none
             THEN use_visualcrossing_api(rb, a.q, n)
             ELSE a
    ELSE IF ~q.visualcrossing_limit_reached
    THEN use_visualcrossing_api(rb, q, n)
    ELSE IF q.darksky_limit_reached /\ q.visualcrossing_limit_reached
    THEN [temperature |-> None, q |-> [q EXCEPT !.api_calls_available = FALSE]]
    ELSE [temperature |-> None, q |-> q]

(***************************************************************************)
(* plt.hist(temperatures, bins = bucket_count): numpy's equal-width bins.  *)
(* Edges are multiplied by the number of bins k.                           *)
(***************************************************************************)
Min(S) == CHOOSE x \in S : \A y \in S : x <= y

Max(S) == CHOOSE x \in S : \A y \in S : y <= x

\* The range numpy takes: (0, 1) for no samples, else (min, max).
HistLo(ts) == IF ts = <<>> THEN 0 ELSE Min(Range(ts))

HistHi(ts) == IF ts = <<>> THEN 1 ELSE Max(Range(ts))

\* bins[i], i in 0..k, times k.
BinEdge(ts, k, i) == k * HistLo(ts) + i * (HistHi(ts) - HistLo(ts))

\* The samples in [bins[j], bins[j+1]), the last bin open like the others.
BinCountOpen(ts, k, j) ==
    Cardinality({x \in DOMAIN ts :
        /\ k * ts[x] >= BinEdge(ts, k, j)
        /\ k * ts[x] < BinEdge(ts, k, j + 1)})

\* n[j], j in 0..k-1: the samples in [bins[j], bins[j+1]), the last bin
\* closed at the maximum.
BinCount(ts, k, j) ==
    Cardinality({x \in DOMAIN ts :
        /\ k * ts[x] >= BinEdge(ts, k, j)
        /\ \/ k * ts[x] < BinEdge(ts, k, j + 1)
           \/ j = k - 1 /\ k * ts[x] = BinEdge(ts, k, k)})

\* The row write_tsv_file writes for bin b in 0..k-1.  bucketMin and
\* bucketMax are times k; literal tells that bucketMin is the text '0'.
TsvRow(ts, k, b) ==
    IF b # 0
    THEN [literal |-> FALSE, bucketMin |-> BinEdge(ts, k, b - 1),
          bucketMax |-> BinEdge(ts, k, b), Count |-> BinCount(ts, k, b)]
    ELSE [literal |-> TRUE, bucketMin |-> 0,
          bucketMax |-> BinEdge(ts, k, b), Count |-> BinCount(ts, k, b)]

\* The rows after the header.
TsvRows(ts, k) == [r \in 1..k |-> TsvRow(ts, k, r - 1)]

\* write_tsv_file's test len(set(self.temperatures)) == 1.
Aborts(ts) == Cardinality(Range(ts)) = 1

(***************************************************************************)
(* State.                                                                  *)
(***************************************************************************)
VARIABLES
    \* The environment: the day, and the files that outlive a run.
    today,
    ip_locations_file,
    vc_limit_file,
    output_file,
    \* The running process: where it is, and the fields of self.
    pc,
    bucket_count,
    data,
    ip_addresses,
    ip_locations,
    temperatures,
    darksky_limit_reached,
    visualcrossing_limit_reached,
    current_vc_api_call_count,
    api_calls_available,
    api_lookup_failures,
    invalid_ips,
    \* Locals: the addresses store_ip_location has still to visit, the
    \* address get_location is resolving and its 429 answers so far, the
    \* position of store_temperature in the cache and its local list.
    todo_ips,
    cur_ip,
    retries,
    idx,
    loc_temperatures,
    \* History, for stating properties: the number of runs started, the
    \* requests sent to DarkSky and Visual Crossing in this run, what this
    \* run has observed, and what is known of the runs so far: the addresses
    \* earlier runs resolved, the day of Visual Crossing's latest 400 and
    \* the addresses of the records earlier runs got a forecast for.
    run,
    sentA,
    sentB,
    obs,
    past

env == <<today, ip_locations_file, vc_limit_file, output_file>>

self == <<bucket_count, data, ip_addresses, ip_locations, temperatures,
          darksky_limit_reached, visualcrossing_limit_reached,
          current_vc_api_call_count, api_calls_available,
          api_lookup_failures, invalid_ips>>

locals == <<todo_ips, cur_ip, retries, idx, loc_temperatures>>

vars == <<env, pc, self, locals, run, sentA, sentB, obs, past>>

\* No get_temperature call yet in this run.
NoRequest ==
    [valid |-> FALSE, ds_before |-> FALSE, vc_before |-> FALSE,
     count_before |-> 0, statusA |-> 0, statusB |-> 0, toA |-> 0, toB |-> 0,
     none |-> TRUE, value |-> 0, rec |-> 0]

\* What a run has observed when it starts on day n with marker file f and
\* cache d: how the marker's date compares with the day, the value
\* read_vc_limit_date left in visualcrossing_limit_reached, the day of
\* Visual Crossing's latest 400 before the run (-1: none), the cached
\* addresses, whether __init__ came to its end; then, as the run goes, the
\* resolutions started per address, the status of the geolocation
\* service's latest answer, the addresses it resolved, its latest
\* get_temperature call (the flags and the count before it, the statuses
\* answered, the requests it sent, its result and the record it was for),
\* the addresses of the records a provider returned a value for, whether
\* DarkSky answered 403, and whether the output file was written.
NewObs(f, n, d, vc, qd, constructed) ==
    [constructed |-> constructed,
     day |-> n,
     quota_day |-> qd,
     marker |-> IF ~f.exists THEN "none"
                ELSE IF f.content = DateStr(DateOf(n)) THEN "today"
                ELSE IF DateLE(strptime(f.content), DateOf(n)) THEN "past"
                ELSE "future",
     vc_start |-> vc,
     keys_start |-> Keys(d),
     geo |-> [ip \in AllIps |-> 0],
     geo_status |-> 0,
     resolved |-> {},
     got |-> {},
     last |-> NoRequest,
     seen403 |-> FALSE,
     wrote |-> FALSE]

Init ==
    /\ today = 0
    /\ ip_locations_file = NoFile
    /\ vc_limit_file = NoFile
    /\ output_file = NoFile
    /\ pc = "idle"
    /\ bucket_count = DefaultBucketCount
    /\ data = <<>>
    /\ ip_addresses = {}
    /\ ip_locations = <<>>
    /\ temperatures = <<>>
    /\ darksky_limit_reached = FALSE
    /\ visualcrossing_limit_reached = FALSE
    /\ current_vc_api_call_count = 0
    /\ api_calls_available = TRUE
    /\ api_lookup_failures = 0
    /\ invalid_ips = {}
    /\ todo_ips = {}
    /\ cur_ip = <<>>
    /\ retries = 0
    /\ idx = 1
    /\ loc_temperatures = <<>>
    /\ run = 0
    /\ sentA = 0
    /\ sentB = 0
    /\ obs = NewObs(NoFile, 0, <<>>, FALSE, -1, FALSE)
    /\ past = [resolved |-> {}, quota_day |-> -1, got |-> {}]

(***************************************************************************)
(* Operations.                                                             *)
(***************************************************************************)
\* The calendar day changes.  The program reads the clock in __init__ and
\* in store_temperature only, so a change at any other point of a run is
\* taken just before the next of these.
NextDay ==
    /\ pc \in {"idle", "done", "store_temperature"}
    /\ today < MaxDay
    /\ today' = today + 1
    /\ UNCHANGED <<ip_locations_file, vc_limit_file, output_file, pc, self,
                   locals, run, sentA, sentB, obs, past>>

\* main() and __init__ up to read_files, when the input file is missing:
\* the process exits.
StartNoInput ==
    /\ pc \in {"idle", "done"}
    /\ run < MaxRuns
    /\ \E k \in {DefaultBucketCount} :
        /\ bucket_count' = k
        /\ data' = <<>>
        /\ ip_addresses' = {}
        /\ ip_locations' = <<>>
        /\ temperatures' = <<>>
        /\ darksky_limit_reached' = FALSE
        /\ visualcrossing_limit_reached' = FALSE
        /\ current_vc_api_call_count' = 0
        /\ api_calls_available' = TRUE
        /\ api_lookup_failures' = 0
        /\ invalid_ips' = {}
        /\ todo_ips' = {}
        /\ cur_ip' = <<>>
        /\ retries' = 0
        /\ idx' = 1
        /\ loc_temperatures' = <<>>
        /\ run' = run + 1
        /\ sentA' = 0
        /\ sentB' = 0
        /\ obs' = NewObs(vc_limit_file, today, <<>>, FALSE, past.quota_day, FALSE)
        /\ past' = [past EXCEPT !.resolved = @ \cup obs.resolved,
                             !.got = @ \cup obs.got]
        /\ pc' = "done"
        /\ UNCHANGED env

\* main() and __init__, run without --bucket-count, on an input file that
\* exists: read_files, get_ips and read_vc_limit_date, then write_tsv_file
\* enters store_ip_location.
Construct(input) ==
    /\ input.exists
    /\ bucket_count' = DefaultBucketCount
    /\ data' = input.content
    /\ ip_addresses' = get_ips(input.content)
    /\ ip_locations' = read_files(ip_locations_file)
    /\ temperatures' = <<>>
    /\ darksky_limit_reached' = FALSE
    /\ visualcrossing_limit_reached' = read_vc_limit_date(vc_limit_file, today)
    /\ current_vc_api_call_count' = 0
    /\ api_calls_available' = TRUE
    /\ api_lookup_failures' = 0
    /\ invalid_ips' = {}
    /\ todo_ips' = get_ips(input.content)
    /\ cur_ip' = <<>>
    /\ retries' = 0
    /\ idx' = 1
    /\ loc_temperatures' = <<>>
    /\ run' = run + 1
    /\ sentA' = 0
    /\ sentB' = 0
    /\ obs' = NewObs(vc_limit_file, today, read_files(ip_locations_file),
                     read_vc_limit_date(vc_limit_file, today), past.quota_day,
                     TRUE)
    /\ past' = [past EXCEPT !.resolved = @ \cup obs.resolved,
                             !.got = @ \cup obs.got]
    /\ pc' = "store_ip_location"
    /\ UNCHANGED env

\* A run starts, after the runs before it have ended.
Start ==
    /\ pc \in {"idle", "done"}
    /\ run < MaxRuns
    /\ \E input \in InputFiles : Construct(input)

\* The single run over three addresses starts.
StartChain ==
    /\ pc = "idle"
    /\ \E input \in ChainInputFiles : Construct(input)

\* store_ip_location without its test.
NeedsLookupAlways(ip, d) == TRUE

\* store_ip_location's test: ip not in self.ip_locations.
NeedsLookup(ip, d) == ip \notin Keys(d)

\* self.ip_locations[ip] = e: in place for a key already there, else appended.
DictSet(d, e) ==
    IF e.ip \in Keys(d)
    THEN [k \in DOMAIN d |-> IF d[k].ip = e.ip THEN e ELSE d[k]]
    ELSE Append(d, e)

\* store_ip_location: the loop takes the next address of the set, in any
\* order; an address not in the cache goes to get_location.
StoreIpLocationNext ==
    /\ pc = "store_ip_location"
    /\ \E ip \in todo_ips :
        /\ todo_ips' = todo_ips \ {ip}
        /\ IF NeedsLookup(ip, ip_locations)
           THEN /\ pc' = "get_location"
                /\ cur_ip' = ip
                /\ obs' = [obs EXCEPT !.geo[ip] = @ + 1]
           ELSE UNCHANGED <<pc, cur_ip, obs>>
    /\ UNCHANGED <<env, self, retries, idx, loc_temperatures, run, sentA,
                   sentB, past>>

\* get_location without the count of line 119.
GetLocationUncounted(n) ==
    /\ pc = "get_location"
    /\ \E r \in ResponsesGeo :
        /\ r.status = 429 => retries < n
        /\ IF r.status = 200
           THEN /\ ip_locations' =
                       DictSet(ip_locations,
                               [ip |-> cur_ip, lat |-> r.loc.lat,
                                lon |-> r.loc.lon, temperature |-> 0])
                /\ pc' = "store_ip_location"
                /\ retries' = 0
                /\ obs' = [obs EXCEPT !.resolved = @ \cup {cur_ip},
                                      !.geo_status = r.status]
                /\ UNCHANGED <<api_lookup_failures, invalid_ips>>
           ELSE IF r.status = 429
           THEN /\ retries' = retries + 1
                /\ obs' = [obs EXCEPT !.geo_status = r.status]
                /\ UNCHANGED <<pc, ip_locations, api_lookup_failures,
                               invalid_ips>>
           ELSE /\ api_lookup_failures' = api_lookup_failures
                /\ invalid_ips' = invalid_ips \cup {cur_ip}
                /\ pc' = "store_ip_location"
                /\ retries' = 0
                /\ obs' = [obs EXCEPT !.geo_status = r.status]
                /\ UNCHANGED ip_locations
    /\ UNCHANGED <<env, bucket_count, data, ip_addresses, temperatures,
                   darksky_limit_reached, visualcrossing_limit_reached,
                   current_vc_api_call_count, api_calls_available,
                   todo_ips, cur_ip, idx, loc_temperatures, run, sentA,
                   sentB, past>>

\* get_location: one request for cur_ip.  200 returns the location, which
\* store_ip_location caches with temperature 0; 429 sleeps and calls
\* get_location again, which it has done retries times so far; any other
\* status counts a failure and returns {}.  The service answers 429 at most
\* n times in a row.
GetLocationWithin(n) ==
    /\ pc = "get_location"
    /\ \E r \in ResponsesGeo :
        /\ r.status = 429 => retries < n
        /\ IF r.status = 200
           THEN /\ ip_locations' =
                       DictSet(ip_locations,
                               [ip |-> cur_ip, lat |-> r.loc.lat,
                                lon |-> r.loc.lon, temperature |-> 0])
                /\ pc' = "store_ip_location"
                /\ retries' = 0
                /\ obs' = [obs EXCEPT !.resolved = @ \cup {cur_ip},
                                      !.geo_status = r.status]
                /\ UNCHANGED <<api_lookup_failures, invalid_ips>>
           ELSE IF r.status = 429
           THEN /\ retries' = retries + 1
                /\ obs' = [obs EXCEPT !.geo_status = r.status]
                /\ UNCHANGED <<pc, ip_locations, api_lookup_failures,
                               invalid_ips>>
           ELSE /\ api_lookup_failures' = api_lookup_failures + 1
                /\ invalid_ips' = invalid_ips \cup {cur_ip}
                /\ pc' = "store_ip_location"
                /\ retries' = 0
                /\ obs' = [obs EXCEPT !.geo_status = r.status]
                /\ UNCHANGED ip_locations
    /\ UNCHANGED <<env, bucket_count, data, ip_addresses, temperatures,
                   darksky_limit_reached, visualcrossing_limit_reached,
                   current_vc_api_call_count, api_calls_available,
                   todo_ips, cur_ip, idx, loc_temperatures, run, sentA,
                   sentB, past>>

\* get_location, the service answering 429 at most MaxRetries times in a
\* row, which the interpreter's stack has room for.
GetLocation == GetLocationWithin(MaxRetries)

\* get_location, the service answering 429 as long as the stack has room
\* for the next call of get_location.
GetLocationNested == GetLocationWithin(RecursionLimit - 1)

\* get_location on 429 when the stack has no room left: the call at line
\* 117 raises RecursionError, which nothing catches, and the process ends
\* before store_ip_location writes the cache.
RecursionError ==
    /\ pc = "get_location"
    /\ retries = RecursionLimit - 1
    /\ \E r \in ResponsesGeo :
        /\ r.status = 429
        /\ obs' = [obs EXCEPT !.geo_status = r.status]
    /\ pc' = "recursion_error"
    /\ UNCHANGED <<env, self, locals, run, sentA, sentB, past>>

\* store_ip_location after its loop: write_ip_locations_file; write_tsv_file
\* goes on to store_temperature.
StoreIpLocationEnd ==
    /\ pc = "store_ip_location"
    /\ todo_ips = {}
    /\ ip_locations_file' = write_ip_locations_file(ip_locations)
    /\ pc' = "store_temperature"
    /\ idx' = 1
    /\ loc_temperatures' = <<>>
    /\ UNCHANGED <<today, vc_limit_file, output_file, self, todo_ips, cur_ip,
                   retries, run, sentA, sentB, obs, past>>

\* The program state the provider chain works on.
ChainState ==
    [darksky_limit_reached |-> darksky_limit_reached,
     visualcrossing_limit_reached |-> visualcrossing_limit_reached,
     current_vc_api_call_count |-> current_vc_api_call_count,
     api_calls_available |-> api_calls_available,
     vc_limit_file |-> vc_limit_file,
     sentA |-> sentA,
     sentB |-> sentB]

\* store_temperature: one turn of the loop over self.ip_locations.
StoreTemperatureNext ==
    /\ pc = "store_temperature"
    /\ idx <= Len(ip_locations)
    /\ \E ra \in ResponsesA, rb \in ResponsesB :
        LET e    == ip_locations[idx]
            call == api_calls_available /\ e.temperature = 0
            g    == IF call
                    THEN get_temperature(ra, rb, ChainState, today)
                    ELSE [temperature |-> Some(e.temperature), q |-> ChainState]
            temp == g.temperature
            keep == ~temp.none /\ temp.value # 0
        IN  /\ darksky_limit_reached' = g.q.darksky_limit_reached
            /\ visualcrossing_limit_reached' = g.q.visualcrossing_limit_reached
            /\ current_vc_api_call_count' = g.q.current_vc_api_call_count
            /\ api_calls_available' = g.q.api_calls_available
            /\ vc_limit_file' = g.q.vc_limit_file
            /\ sentA' = g.q.sentA
            /\ sentB' = g.q.sentB
            /\ loc_temperatures' =
                   IF keep THEN Append(loc_temperatures, temp.value)
                           ELSE loc_temperatures
            /\ ip_locations' =
                   IF keep
                   THEN [ip_locations EXCEPT ![idx].temperature = temp.value]
                   ELSE ip_locations
            /\ obs' = IF call
                      THEN [obs EXCEPT
                              !.last = [valid |-> TRUE,
                                        ds_before |-> darksky_limit_reached,
                                        vc_before |-> visualcrossing_limit_reached,
                                        count_before |-> current_vc_api_call_count,
                                        statusA |-> IF g.q.sentA > sentA
                                                    THEN ra.status ELSE 0,
                                        statusB |-> IF g.q.sentB > sentB
                                                    THEN rb.status ELSE 0,
                                        toA |-> g.q.sentA - sentA,
                                        toB |-> g.q.sentB - sentB,
                                        none |-> temp.none,
                                        value |-> temp.value,
                                        rec |-> idx],
                              !.seen403 = @ \/ (g.q.sentA > sentA /\ ra.status = 403),
                              !.got = IF temp.none THEN @ ELSE @ \cup {e.ip}]
                      ELSE obs
            /\ past' = IF g.q.sentB > sentB /\ rb.status = 400
                       THEN [past EXCEPT !.quota_day = today]
                       ELSE past
    /\ idx' = idx + 1
    /\ UNCHANGED <<today, ip_locations_file, output_file, pc, bucket_count,
                   data, ip_addresses, temperatures, api_lookup_failures,
                   invalid_ips, todo_ips, cur_ip, retries, run>>

\* store_temperature after its loop: self.temperatures = temperatures and
\* write_ip_locations_file.
StoreTemperatureEnd ==
    /\ pc = "store_temperature"
    /\ idx > Len(ip_locations)
    /\ temperatures' = loc_temperatures
    /\ ip_locations_file' = write_ip_locations_file(ip_locations)
    /\ pc' = "histogram"
    /\ UNCHANGED <<today, vc_limit_file, output_file, bucket_count, data,
                   ip_addresses, ip_locations, darksky_limit_reached,
                   visualcrossing_limit_reached, current_vc_api_call_count,
                   api_calls_available, api_lookup_failures, invalid_ips,
                   locals, run, sentA, sentB, obs, past>>

\* write_tsv_file after store_temperature: return when all samples are the
\* same, else plt.hist and the rows of the output file.
WriteTsvFile ==
    /\ pc = "histogram"
    /\ IF Aborts(temperatures)
       THEN UNCHANGED <<output_file, obs>>
       ELSE /\ output_file' = File(TsvRows(temperatures, bucket_count))
            /\ obs' = [obs EXCEPT !.wrote = TRUE]
    /\ pc' = "done"
    /\ UNCHANGED <<today, ip_locations_file, vc_limit_file, self, locals, run,
                   sentA, sentB, past>>


Next ==
    \/ NextDay
    \/ StartNoInput
    \/ Start
    \/ StoreIpLocationNext
    \/ GetLocation
    \/ StoreIpLocationEnd
    \/ StoreTemperatureNext
    \/ StoreTemperatureEnd
    \/ WriteTsvFile

\* Runs of the program one after the other, on inputs of up to two addresses.
Spec == Init /\ [][Next]_vars

NextChain ==
    \/ NextDay
    \/ StartChain
    \/ StoreIpLocationNext
    \/ GetLocation
    \/ StoreIpLocationEnd
    \/ StoreTemperatureNext
    \/ StoreTemperatureEnd
    \/ WriteTsvFile

\* One run of the program on an input of three addresses, from empty files.
SpecChain == Init /\ [][NextChain]_vars

\* The same run, in which store_temperature's loop goes on as long as it
\* can: the process is not stopped and every request is answered.
SpecChainFair ==
    /\ SpecChain
    /\ WF_vars(StoreTemperatureNext)
    /\ WF_vars(StoreTemperatureEnd)

\* The process is killed (a signal, the power) in write_ip_locations_file,
\* after open(..., 'w') and before the dump and the close are through.
KillWritingCache ==
    /\ \/ pc = "store_ip_location" /\ todo_ips = {}
       \/ pc = "store_temperature" /\ idx > Len(ip_locations)
    /\ ip_locations_file' = Torn
    /\ pc' = "killed"
    /\ UNCHANGED <<today, vc_limit_file, output_file, self, locals, run, sentA,
                   sentB, obs, past>>

\* The process is killed in store_vc_limit_date, which a 400 of Visual
\* Crossing has led to, after open(..., 'w') and before the write and the
\* close are through.
KillWritingMarker ==
    /\ pc = "store_temperature"
    /\ idx <= Len(ip_locations)
    /\ api_calls_available
    /\ ip_locations[idx].temperature = 0
    /\ \E ra \in ResponsesA, rb \in ResponsesB :
        /\ rb.status = 400
        /\ get_temperature(ra, rb, ChainState, today).q.sentB > sentB
    /\ vc_limit_file' = Torn
    /\ pc' = "killed"
    /\ UNCHANGED <<today, ip_locations_file, output_file, self, locals, run,
                   sentA, sentB, obs, past>>

\* A run starts after the run before it has ended or was killed.
StartAfterKill ==
    /\ pc \in {"idle", "done", "killed", "value_error"}
    /\ run < MaxRuns
    /\ ~vc_limit_file.torn
    /\ \E input \in InputFiles : Construct(input)

\* A run starts on a VC_limit_date.txt that strptime raises ValueError on
\* (line 94): nothing catches it and the process ends in __init__.
StartTornMarker ==
    /\ pc \in {"idle", "done", "killed", "value_error"}
    /\ run < MaxRuns
    /\ vc_limit_file.torn
    /\ \E input \in InputFiles :
        /\ input.exists
        /\ data' = input.content
        /\ ip_locations' = read_files(ip_locations_file)
    /\ bucket_count' = DefaultBucketCount
    /\ ip_addresses' = {}
    /\ temperatures' = <<>>
    /\ darksky_limit_reached' = FALSE
    /\ visualcrossing_limit_reached' = FALSE
    /\ current_vc_api_call_count' = 0
    /\ api_calls_available' = TRUE
    /\ api_lookup_failures' = 0
    /\ invalid_ips' = {}
    /\ todo_ips' = {}
    /\ cur_ip' = <<>>
    /\ retries' = 0
    /\ idx' = 1
    /\ loc_temperatures' = <<>>
    /\ run' = run + 1
    /\ sentA' = 0
    /\ sentB' = 0
    /\ obs' = NewObs(NoFile, today, read_files(ip_locations_file), FALSE,
                     past.quota_day, FALSE)
    /\ past' = [past EXCEPT !.resolved = @ \cup obs.resolved,
                             !.got = @ \cup obs.got]
    /\ pc' = "value_error"
    /\ UNCHANGED env

NextKill ==
    \/ StartAfterKill
    \/ StartTornMarker
    \/ StoreIpLocationNext
    \/ GetLocation
    \/ StoreIpLocationEnd
    \/ StoreTemperatureNext
    \/ StoreTemperatureEnd
    \/ WriteTsvFile
    \/ KillWritingCache
    \/ KillWritingMarker

\* Runs of the program one after the other, each of which may be killed
\* while it writes ip_locations.txt or VC_limit_date.txt.
SpecKill == Init /\ [][NextKill]_vars

NextGeo ==
    \/ StartChain
    \/ StoreIpLocationNext
    \/ GetLocationNested
    \/ RecursionError
    \/ StoreIpLocationEnd

\* store_ip_location of one run on an input of three addresses, the
\* geolocation service answering 429 any number of times in a row.
SpecGeo == Init /\ [][NextGeo]_vars

(***************************************************************************)
(* write_tsv_file's histogram on its own: self.temperatures as              *)
(* store_temperature may leave it (no 0 among the samples), and any         *)
(* --bucket-count.                                                          *)
(***************************************************************************)
\* Non-zero temperatures.
HistValues == {-1, 1, 2, 4}

BoundedSeq(S, n) == UNION {[1..m -> S] : m \in 0..n}

\* The scenario bucketCount = 5, samples = [50, 55, 60, 65, 70, 75, 80].
ScenarioSamples == <<50, 55, 60, 65, 70, 75, 80>>

InitHist ==
    /\ today = 0
    /\ ip_locations_file = NoFile
    /\ vc_limit_file = NoFile
    /\ output_file = NoFile
    /\ pc = "histogram"
    /\ bucket_count \in (1..MaxBuckets) \cup {DefaultBucketCount}
    /\ data = <<>>
    /\ ip_addresses = {}
    /\ ip_locations = <<>>
    /\ temperatures \in BoundedSeq(HistValues, MaxSamples) \cup {ScenarioSamples}
    /\ darksky_limit_reached = FALSE
    /\ visualcrossing_limit_reached = FALSE
    /\ current_vc_api_call_count = 0
    /\ api_calls_available = TRUE
    /\ api_lookup_failures = 0
    /\ invalid_ips = {}
    /\ todo_ips = {}
    /\ cur_ip = <<>>
    /\ retries = 0
    /\ idx = 1
    /\ loc_temperatures = temperatures
    /\ run = 1
    /\ sentA = 0
    /\ sentB = 0
    /\ obs = NewObs(NoFile, 0, <<>>, FALSE, -1, FALSE)
    /\ past = [resolved |-> {}, quota_day |-> -1, got |-> {}]

NextHist == WriteTsvFile

SpecHist == InitHist /\ [][NextHist]_vars

(***************************************************************************)
(* get_ips on its own, over texts around the private ranges.               *)
(***************************************************************************)
\* Texts of the shape  prefix o1 . o2 . 0 . o4 suffix.
ExtractTexts ==
    LET pre  == {<<>>, <<"x">>, <<"1", ".">>, <<" ">>}
        o1   == {<<"1", "0">>, <<"0", "1", "0">>, <<"1", "7", "2">>,
                 <<"1", "9", "2">>, <<"8">>, <<"2", "5", "5">>, <<"2", "5", "6">>}
        o2   == {<<"0">>, <<"1", "6">>, <<"0", "1", "6">>, <<"3", "1">>,
                 <<"3", "2">>, <<"1", "6", "8">>}
        o4   == {<<"5">>, <<"2", "5", "6">>}
        post == {<<>>, <<"a">>, <<".", "1">>}
    IN  {p \o a \o <<".">> \o b \o <<".", "0", ".">> \o d \o q :
            p \in pre, a \in o1, b \in o2, d \in o4, q \in post}
        \cup {Text1, Text2, Text3}

InitIps ==
    /\ today = 0
    /\ ip_locations_file = NoFile
    /\ vc_limit_file = NoFile
    /\ output_file = NoFile
    /\ pc = "get_ips"
    /\ bucket_count = DefaultBucketCount
    /\ data \in ExtractTexts
    /\ ip_addresses = {}
    /\ ip_locations = <<>>
    /\ temperatures = <<>>
    /\ darksky_limit_reached = FALSE
    /\ visualcrossing_limit_reached = FALSE
    /\ current_vc_api_call_count = 0
    /\ api_calls_available = TRUE
    /\ api_lookup_failures = 0
    /\ invalid_ips = {}
    /\ todo_ips = {}
    /\ cur_ip = <<>>
    /\ retries = 0
    /\ idx = 1
    /\ loc_temperatures = <<>>
    /\ run = 1
    /\ sentA = 0
    /\ sentB = 0
    /\ obs = NewObs(NoFile, 0, <<>>, FALSE, -1, FALSE)
    /\ past = [resolved |-> {}, quota_day |-> -1, got |-> {}]

\* __init__'s call of get_ips on the text read from the input file.
GetIps ==
    /\ pc = "get_ips"
    /\ ip_addresses' = get_ips(data)
    /\ pc' = "read_vc_limit_date"
    /\ UNCHANGED <<env, bucket_count, data, ip_locations, temperatures,
                   darksky_limit_reached, visualcrossing_limit_reached,
                   current_vc_api_call_count, api_calls_available,
                   api_lookup_failures, invalid_ips, locals, run, sentA,
                   sentB, obs, past>>

NextIps == GetIps

SpecIps == InitIps /\ [][NextIps]_vars

(***************************************************************************)
(* Properties.                                                             *)
(***************************************************************************)
\* The run came through __init__ and is past it.
InRun == run >= 1 /\ obs.constructed

\* C1: if at startup VC_limit_date.txt holds today's date, no request is
\* sent to Visual Crossing at any point of that run, whatever DarkSky
\* answers; if it holds an earlier date, Visual Crossing starts the run not
\* exhausted.
C1_QuotaDateGate ==
    InRun =>
        /\ obs.marker = "today" => sentB = 0
        /\ obs.marker = "past" => ~obs.vc_start

\* C1, the part about an earlier date alone.
C1_PastDateEligible == InRun /\ obs.marker = "past" => ~obs.vc_start

\* C2: in a run the number of requests sent to Visual Crossing never
\* exceeds max_limit_calls; the request that would exceed it is not sent,
\* Visual Crossing is marked exhausted and the result is unavailable.
C2_PerRunBudget ==
    InRun =>
        /\ sentB <= max_limit_calls
        /\ (obs.last.valid /\ obs.last.count_before >= max_limit_calls
               /\ (obs.last.ds_before \/ obs.last.statusA # 200)
               /\ ~obs.last.vc_before) =>
              /\ obs.last.toB = 0
              /\ obs.last.none
              /\ visualcrossing_limit_reached

\* C3: once DarkSky has answered 403 in a run it stays marked exhausted and
\* no later temperature request sends a request to it; a temperature
\* request made while DarkSky is exhausted and Visual Crossing is not
\* exhausted and under budget sends exactly one request, to Visual
\* Crossing; and the request on which DarkSky answers 403 goes on to Visual
\* Crossing.
C3_FallbackAfterAExhausted ==
    InRun =>
        /\ obs.seen403 => darksky_limit_reached
        /\ (obs.last.valid /\ obs.last.ds_before) => obs.last.toA = 0
        /\ (obs.last.valid /\ obs.last.ds_before /\ ~obs.last.vc_before
               /\ obs.last.count_before <= max_limit_calls) =>
              obs.last.toA = 0 /\ obs.last.toB = 1
        /\ (obs.last.valid /\ obs.last.statusA = 403
               /\ obs.last.count_before <= max_limit_calls) =>
              obs.last.toA = 1 /\ obs.last.toB = 1

\* C3's case: the latest temperature request was made with DarkSky marked
\* exhausted after its 403, Visual Crossing not exhausted and under budget,
\* and went to Visual Crossing alone.
C3_Witness ==
    /\ InRun
    /\ obs.seen403
    /\ obs.last.valid
    /\ obs.last.ds_before
    /\ ~obs.last.vc_before
    /\ obs.last.count_before <= max_limit_calls
    /\ obs.last.toB = 1

\* The cached temperatures, in the order of the cache.
CachedTemperatures(d) == [k \in DOMAIN d |-> d[k].temperature]

C5_GeolocationOncePerIp ==
    InRun =>
        \A ip \in AllIps :
            /\ obs.geo[ip] <= 1
            /\ ip \in obs.keys_start => obs.geo[ip] = 0
            /\ ip \in past.resolved => obs.geo[ip] = 0
            /\ pc \in {"store_temperature", "histogram", "done"} =>
                  obs.geo[ip] =
                      IF ip \in ip_addresses \ obs.keys_start THEN 1 ELSE 0

\* C5's case: a second run whose input holds an address an earlier run
\* resolved, which it does not resolve again, and a new address, which it
\* resolves once.
C5_Witness ==
    /\ InRun
    /\ run = 2
    /\ pc = "store_temperature"
    /\ \E ip \in ip_addresses : ip \in past.resolved /\ obs.geo[ip] = 0
    /\ \E ip \in ip_addresses : ip \notin obs.keys_start /\ obs.geo[ip] = 1

\* C6: if the temperature samples of a run hold fewer than 2 distinct
\* values, no samples at all included, the run ends without writing the
\* output file.
C6_AbortOnInsufficientData ==
    (InRun /\ pc = "done" /\ Cardinality(Range(temperatures)) < 2) => ~obs.wrote

\* C6, for samples that all have one and the same value.
C6_AbortOnIdenticalSamples ==
    (InRun /\ pc = "done" /\ Cardinality(Range(temperatures)) = 1) => ~obs.wrote

\* C7: in the written output the rows' (bucketMin, bucketMax) pairs are
\* contiguous and strictly increasing, and together cover the samples from
\* the least to the greatest, the first row's lower bound being the text
\* '0'; for every sample set with at least two distinct values.
C7_ReportedBucketBoundaries ==
    (pc = "done" /\ obs.wrote /\ Cardinality(Range(temperatures)) >= 2) =>
        LET rows == output_file.content
            k    == bucket_count
        IN  /\ rows[1].literal
            /\ \A r \in 1..(k - 1) : rows[r].bucketMax = rows[r + 1].bucketMin
            /\ \A r \in 1..(k - 1) : rows[r].bucketMax < rows[r + 1].bucketMax
            /\ \A r \in 2..k : rows[r].bucketMin < rows[r].bucketMax
            /\ rows[k].bucketMax = k * Max(Range(temperatures))
            /\ \A x \in DOMAIN temperatures :
                  \E r \in 1..k :
                      /\ r = 1 \/ rows[r].bucketMin <= k * temperatures[x]
                      /\ k * temperatures[x] <= rows[r].bucketMax

RECURSIVE SumCounts(_)
\* The sum of the Count column.
SumCounts(rows) ==
    IF rows = <<>> THEN 0 ELSE Head(rows).Count + SumCounts(Tail(rows))

\* C8: the counts written in the output rows sum to the number of samples
\* of the run, which are the cached temperatures other than 0, one per
\* record; and bucket_count rows are written after the header.
C8_CountsSumToSamples ==
    (InRun /\ pc = "done" /\ obs.wrote) =>
        /\ Len(output_file.content) = bucket_count
        /\ SumCounts(output_file.content) = Len(temperatures)
        /\ Len(temperatures) =
               Cardinality({k \in DOMAIN ip_locations :
                               ip_locations[k].temperature # 0})
        /\ \A x \in DOMAIN temperatures : temperatures[x] # 0

\* C8's case: an output written from two samples of different values, with
\* a third record still at 0.
C8_Witness ==
    /\ InRun
    /\ pc = "done"
    /\ obs.wrote
    /\ Len(temperatures) = 2
    /\ Cardinality(Range(temperatures)) = 2
    /\ \E k \in DOMAIN ip_locations : ip_locations[k].temperature = 0

\* C9: a run started on the day of Visual Crossing's latest 400 starts with
\* Visual Crossing marked exhausted, a run started on a later day starts
\* with it not exhausted, and so does a run that finds no marker, which is
\* the case exactly when no 400 was ever received.
C9_DailyLimitAcrossRuns ==
    InRun =>
        /\ obs.quota_day = -1 <=> obs.marker = "none"
        /\ obs.marker = "none" => ~obs.vc_start
        /\ (obs.quota_day # -1 /\ obs.day = obs.quota_day) => obs.vc_start
        /\ (obs.quota_day # -1 /\ obs.day > obs.quota_day) => ~obs.vc_start
        /\ obs.day >= obs.quota_day

\* C9's case: a later run started on the day of the 400.
C9_Witness ==
    /\ InRun
    /\ run = 2
    /\ obs.quota_day = obs.day
    /\ obs.vc_start

\* C10: no address of the extracted set lies in 10.0.0.0/8, 172.16.0.0/12
\* or 192.168.0.0/16, whatever the text; the matches, as a set, are the
\* extracted set; "Host 8.8.8.8 and 10.0.0.5 talked" yields {8.8.8.8}.
C10_PrivateRangesExcluded ==
    pc = "read_vc_limit_date" =>
        /\ \A ip \in ip_addresses : ~IsPrivate(ip)
        /\ ip_addresses = Range(findall(data, 1))
        /\ data = Text1 => ip_addresses = {<<"8", ".", "8", ".", "8", ".", "8">>}

\* An octet written without a leading zero.
Canonical(ip) ==
    \A k \in DOMAIN SplitDots(ip) :
        Len(SplitDots(ip)[k]) = 1 \/ Head(SplitDots(ip)[k]) # "0"

\* C10, for the addresses written without leading zeros.
C10_CanonicalNotPrivate ==
    pc = "read_vc_limit_date" =>
        \A ip \in ip_addresses : Canonical(ip) => ~IsPrivate(ip)

\* C11: once Visual Crossing is marked exhausted in a run (by its 400, by
\* the budget or by the date read at startup), no later temperature request
\* of the run sends a request to it, the requests on which DarkSky is not
\* exhausted but gives no value included.
C11_NoCallWhileBExhausted ==
    (InRun /\ obs.last.valid /\ obs.last.vc_before) => obs.last.toB = 0

\* C12: every output row after the first has as its count the number of
\* samples in [bucketMin, bucketMax) of that same row, the last row
\* counting the greatest sample as well.
C12_CountWithinReportedBounds ==
    (pc = "done" /\ obs.wrote) =>
        LET rows == output_file.content
            k    == bucket_count
        IN  \A r \in 2..k :
                rows[r].Count =
                    Cardinality({x \in DOMAIN temperatures :
                        \/ /\ rows[r].bucketMin <= k * temperatures[x]
                           /\ k * temperatures[x] < rows[r].bucketMax
                        \/ /\ r = k
                           /\ temperatures[x] = Max(Range(temperatures))})

\* C13: when Visual Crossing answers 400 it is marked exhausted,
\* VC_limit_date.txt is overwritten with today's date and the request
\* yields None; when it is marked exhausted because the call count is over
\* the budget, no request is sent and VC_limit_date.txt is left unchanged;
\* the file is written on no other occasion, so on no answer of DarkSky.
C13_QuotaSignalVersusBudget ==
    [][run' = run =>
          /\ (sentB' = sentB + 1 /\ obs'.last.statusB = 400) =>
                /\ visualcrossing_limit_reached'
                /\ vc_limit_file' = File(DateStr(DateOf(today)))
                /\ obs'.last.none
          /\ (~visualcrossing_limit_reached /\ visualcrossing_limit_reached') =>
                \/ sentB' = sentB + 1 /\ obs'.last.statusB = 400
                \/ /\ sentB' = sentB
                   /\ current_vc_api_call_count > max_limit_calls
                   /\ current_vc_api_call_count' = current_vc_api_call_count
          /\ sentB' = sentB => vc_limit_file' = vc_limit_file
          /\ vc_limit_file' # vc_limit_file => obs'.last.statusB = 400
      ]_vars

\* C13's case: Visual Crossing answered 400 earlier in the run, which wrote
\* the day's date, and the latest temperature request was stopped by the
\* budget after DarkSky gave no value, sending nothing to Visual Crossing.
C13_Witness ==
    /\ InRun
    /\ obs.marker = "none"
    /\ vc_limit_file = File(DateStr(DateOf(past.quota_day)))
    /\ past.quota_day # -1
    /\ obs.last.valid
    /\ obs.last.count_before > max_limit_calls
    /\ obs.last.toA = 1
    /\ obs.last.toB = 0
    /\ obs.last.none

\* C14: on a 429 answer get_location asks again for the same address,
\* however many 429 answers came before, and records neither an invalid
\* address nor a failure nor a location; the resolution ends only on an
\* answer other than 429.
C14_RateLimitRetry ==
    [][(pc = "get_location" /\ obs'.geo_status = 429) =>
          /\ pc' = "get_location"
          /\ cur_ip' = cur_ip
          /\ invalid_ips' = invalid_ips
          /\ api_lookup_failures' = api_lookup_failures
          /\ ip_locations' = ip_locations
      ]_vars

\* C15: when the geolocation service answers an address with an error
\* other than 429, the address joins invalid_ips, api_lookup_failures
\* grows by exactly one and no cache record is made for it; no forecast
\* request of the run is for an invalid address; and all along the run
\* api_lookup_failures is the size of invalid_ips, which has no address in
\* common with the cache.
C15_InvalidIpHandling ==
    [][/\ (pc = "get_location" /\ obs'.geo_status \notin {200, 429}) =>
             /\ invalid_ips' = invalid_ips \cup {cur_ip}
             /\ api_lookup_failures' = api_lookup_failures + 1
             /\ ip_locations' = ip_locations
             /\ cur_ip \notin Keys(ip_locations')
       /\ (run' = run /\ (sentA' # sentA \/ sentB' # sentB)) =>
             ip_locations[idx].ip \notin invalid_ips
       /\ api_lookup_failures' = Cardinality(invalid_ips')
       /\ invalid_ips' \cap Keys(ip_locations') = {}
      ]_vars

\* C15's case: the service refused one address of the input and resolved
\* another, for which a forecast request was then made.
C15_Witness ==
    /\ InRun
    /\ pc = "store_temperature"
    /\ api_lookup_failures = 1
    /\ \E ip \in ip_addresses : invalid_ips = {ip}
    /\ obs.resolved # {}
    /\ sentA = 1

\* Cache e keeps every record of cache d, with its latitude and longitude,
\* and with its temperature if that is not 0.
Extends(d, e) ==
    \A i \in DOMAIN d :
        \E j \in DOMAIN e :
            /\ e[j].ip = d[i].ip
            /\ e[j].lat = d[i].lat
            /\ e[j].lon = d[i].lon
            /\ d[i].temperature # 0 => e[j].temperature = d[i].temperature

\* The records of e that d does not have are at temperature 0.
NewAtZero(d, e) ==
    \A j \in DOMAIN e : e[j].ip \notin Keys(d) => e[j].temperature = 0

\* C16: in a run and from run to run no cache record is removed, a
\* record's latitude and longitude never change, a new record starts at
\* temperature 0, a temperature other than 0 is never changed, and no
\* forecast request is made for a record whose temperature is not 0.  The
\* cache is self.ip_locations in a run, and ip_locations.txt, which a run
\* starts from, between runs.
C16_CacheMonotone ==
    [][/\ Extends(ip_locations_file.content, ip_locations_file'.content)
       /\ NewAtZero(ip_locations_file.content, ip_locations_file'.content)
       /\ run' = run =>
             /\ Extends(ip_locations, ip_locations')
             /\ NewAtZero(ip_locations, ip_locations')
       /\ (run' # run /\ obs'.constructed) =>
             /\ Extends(ip_locations_file.content, ip_locations')
             /\ Extends(ip_locations', ip_locations_file.content)
       /\ (run' = run /\ (sentA' # sentA \/ sentB' # sentB)) =>
             ip_locations[idx].temperature = 0
      ]_vars

\* C16's case: a second run has ended with a record an earlier run left
\* with a temperature, and a record of its own.
C16_Witness ==
    /\ InRun
    /\ run = 2
    /\ pc = "done"
    /\ \E k \in DOMAIN ip_locations :
          ip_locations[k].ip \in obs.keys_start /\ ip_locations[k].temperature # 0
    /\ \E k \in DOMAIN ip_locations : ip_locations[k].ip \notin obs.keys_start
    /\ ip_locations_file = write_ip_locations_file(ip_locations)

\* C17: whenever a provider returns a temperature for a record, 0
\* included, the record's cached temperature is that value from then on,
\* the value is among the samples of the run, and no later run makes a
\* temperature request for the record.
C17_ForecastRecorded ==
    InRun =>
        /\ (obs.last.valid /\ ~obs.last.none) =>
              /\ ip_locations[obs.last.rec].temperature = obs.last.value
              /\ obs.last.value \in Range(loc_temperatures)
        /\ obs.last.valid => ip_locations[obs.last.rec].ip \notin past.got
        /\ \A k \in DOMAIN ip_locations :
              ip_locations[k].ip \in past.got \cup obs.got =>
                  ip_locations[k].temperature # 0

\* C17, for the values other than 0.
C17_NonZeroRecorded ==
    (InRun /\ obs.last.valid /\ ~obs.last.none /\ obs.last.value # 0) =>
        /\ ip_locations[obs.last.rec].temperature = obs.last.value
        /\ obs.last.value \in Range(loc_temperatures)

\* C18: every temperature sample of a run and every forecast request of a
\* run is for an address extracted from the input of that run; a record an
\* earlier run left for an address the input does not hold gives no sample
\* and causes no request.
C18_CurrentInputOnly ==
    [][(/\ run' = run
        /\ \/ loc_temperatures' # loc_temperatures
           \/ sentA' # sentA
           \/ sentB' # sentB) =>
          ip_locations[idx].ip \in ip_addresses
      ]_vars

\* C19: whenever the process ends, killed while it writes the cache or the
\* marker included, each of the two files holds a complete content, the
\* one before the write or the new one, never an empty or a cut one; so the
\* cache the next run will load has every address of the cache the ended
\* run started from.
C19_AtomicPersistence ==
    /\ ~ip_locations_file.torn
    /\ ~vc_limit_file.torn
    /\ (InRun /\ pc \in {"done", "killed"}) =>
          obs.keys_start \subseteq Keys(read_files(ip_locations_file))

\* C19, the loss of the cache alone.
C19_NextRunLoadsSuperset ==
    (InRun /\ pc \in {"done", "killed"}) =>
        obs.keys_start \subseteq Keys(read_files(ip_locations_file))

\* C20: a step of store_temperature that sends a request sends at most one
\* to DarkSky and at most one to Visual Crossing, for the record the loop
\* is at, and the loop then leaves that record for the next, so that no
\* answer is asked for again; and the loop comes to its end whatever the
\* providers answer.
C20_ForecastPhaseBounded ==
    /\ [][(run' = run /\ (sentA' # sentA \/ sentB' # sentB)) =>
              /\ pc = "store_temperature"
              /\ idx \in DOMAIN ip_locations
              /\ sentA' \in {sentA, sentA + 1}
              /\ sentB' \in {sentB, sentB + 1}
              /\ idx' = idx + 1
              /\ Len(ip_locations') = Len(ip_locations)
          ]_vars
    /\ (pc = "store_temperature") ~> (pc = "histogram")

\* C20's case: the loop has ended after a request to DarkSky for each of
\* three records and requests to Visual Crossing as well.
C20_Witness ==
    /\ InRun
    /\ pc = "histogram"
    /\ Len(ip_locations) = 3
    /\ sentA = 3
    /\ sentB >= 2

=============================================================================
